---- MODULE Spec2Model ----
(***************************************************************************)
(* pkglink: the scan -> group -> link/prune -> persist pipeline.           *)
(*                                                                         *)
(* src/src/find-packages.js  findPackagesGrouped: the walks of the root    *)
(*                           directories, the manifest reads, the grouper  *)
(* src/src/cli.js            the run: start-up, the cancellation signal,   *)
(*                           the task sequence, finalTasks                 *)
(*                                                                         *)
(* One step of the model is one turn of the event loop: a handler or a     *)
(* callback with everything it calls synchronously (rxjs notifications     *)
(* propagate synchronously through the operator chain).                    *)
(*                                                                         *)
(* Spec       one run of cli.js                                            *)
(* TreeSpec   one readdirp walk followed through a directory tree          *)
(* RerunSpec  two completed runs in succession on one tree                 *)
(***************************************************************************)
EXTENDS Integers, Sequences, FiniteSets, TLC

\* ---------------------------------------------------------------- bounds
\* root directories given on the command line (argv._), when any are given
NumRoots == 2
\* candidates (manifest files that pass the post-filter) of all walks of one
\* run together
MaxEntries == 2
\* largest config.concurrentOps tried (cli.js:81, an integer >= 1)
MaxConcurrentOps == 2

Roots == 1..NumRoots
Devs == {1, 2}

\* ------------------------------------------------------------ path values
\* a directory path is its sequence of segments below the root directory
NODE_MODULES == "node_modules"
ParentDirs == { <<NODE_MODULES, "lodash">>,
                <<>>,
                <<NODE_MODULES, "lodash", "lib">> }

\* the parsed manifest handed to the result selector: null (a text that
\* does not parse, throws: false), or an object whose name and version may
\* be missing (the empty string stands for a missing or empty field)
NullPack == [isNull |-> TRUE, name |-> "", version |-> ""]
Packs == { NullPack,
           [isNull |-> FALSE, name |-> "lodash", version |-> "4.17.0"],
           [isNull |-> FALSE, name |-> "lodash", version |-> "3.10.1"],
           [isNull |-> FALSE, name |-> "lodash", version |-> ""],
           [isNull |-> FALSE, name |-> "", version |-> "4.17.0"] }

Signals == {"SIGINT", "SIGTERM"}

\* reference tuples [modPath, packJsonInode, packJsonMTimeEpoch] a loaded
\* store may hold: one that still matches the live filesystem, one whose
\* path is gone, one whose path was recreated (another inode), one whose
\* manifest was modified (another modification time)
RefOk == <<"/p1/node_modules/lodash", 11, 100>>
RefStale == <<"/p2/node_modules/lodash", 12, 100>>
RefRecreated == <<"/p3/node_modules/lodash", 13, 100>>
RefTouched == <<"/p4/node_modules/lodash", 14, 100>>
StoredRefs == {RefOk, RefStale, RefRecreated, RefTouched}

\* the live filesystem: [inode, modification time] of the manifest of each
\* module path, the empty tuple for a path that does not exist
NoStat == <<>>
LiveStat(modPath) ==
    CASE modPath = "/p1/node_modules/lodash" -> <<11, 100>>
      [] modPath = "/p3/node_modules/lodash" -> <<31, 100>>
      [] modPath = "/p4/node_modules/lodash" -> <<14, 200>>
      [] OTHER -> NoStat

VARIABLES
    pc,                 \* "boot", "running", "exited", "killed"
    argv,               \* [prune, dryrun, dirs]: the parsed command line
    config,             \* [concurrentOps]
    refsFile,           \* the reference-store file on disk: [exists, refs]
    fsMutations,        \* files and directories created, replaced or written
    handlers,           \* signals that have a listener installed
    cancelled,          \* rtenv.cancelled
    cancelledReplay,    \* rtenv.cancelled$: the values the subject replays
    packageCount,       \* rtenv.packageCount
    savedByteCount,     \* rtenv.savedByteCount
    existingShares,     \* rtenv.existingShares: [id, refs], id the object identity
    origExistingShares, \* the object loaded at start
    nextObj,            \* identity of the next object allocated
    task,               \* the task the concat is subscribed to
    walk,               \* per root: "none", "queued", "walking", "destroyed", "done"
    candCount,          \* candidates that passed the post-filter so far
    readBuffer,         \* candidates waiting for a manifest-read slot
    reading,            \* manifest reads in flight
    groups,             \* the grouper's map, in insertion order: <<[key, acc]>>
    arrived,            \* history: the entries that reached the grouper, in
                        \* arrival order, each with its manifest's name, version
    scanCompleted,      \* findPackagesGrouped's observable has completed
    emittedGroups,      \* the [key, entries] pairs handed downstream
    linkNext,           \* next emitted group the executor takes
    finalTasksRuns,     \* times the body of finalTasks ran
    storeWrites,        \* times the reference-store file was written back
    tree,               \* one readdirp walk seen from inside the tree: [root,
                        \* treeDepth, cwd, tried, accepted, entered, yielded]
    rerun               \* two runs in succession on one tree: the tree on
                        \* disk and the run's state, see RerunInit

\* the state of the run
pipeVars == << pc, argv, config, refsFile, fsMutations, handlers, cancelled,
               cancelledReplay, packageCount, savedByteCount, existingShares,
               origExistingShares, nextObj, task, walk, candCount, readBuffer,
               reading, groups, arrived, scanCompleted, emittedGroups, linkNext,
               finalTasksRuns, storeWrites >>

\* the variables of the closer looks: at one walk, at two runs in succession
sideVars == << tree, rerun >>

vars == << pipeVars, sideVars >>

runVars == << pc, argv, config, handlers >>
scanVars == << walk, candCount, readBuffer, reading, groups, arrived,
               packageCount, scanCompleted, emittedGroups >>
storeVars == << existingShares, origExistingShares, nextObj, refsFile,
                fsMutations, savedByteCount, storeWrites >>

\* ------------------------------------------------- find-packages.js: values
\* the resolved start directory of root r (cli.js:125), by its segments. The
\* start directories are taken to have one shape, a project directory that
\* is no installed package itself; the walks differ by the root's index only.
RootPath(r) == <<"home", "proj">>

\* Path.dirname on a path given by its segments
Dirname(p) == IF Len(p) = 0 THEN p ELSE SubSeq(p, 1, Len(p) - 1)

\* ENDS_NODE_MOD_RE = /[\\\/]node_modules$/: the last segment is node_modules
EndsNodeMod(p) == Len(p) > 0 /\ p[Len(p)] = NODE_MODULES

PostFilterKeepingAll(ei) == TRUE

\* .filter(ei => ENDS_NODE_MOD_RE.test(Path.dirname(ei.fullParentDir)))
PostFilter(ei) == EndsNodeMod(Dirname(ei.fullParentDir))

\* ---------------------------------------- find-packages.js: the tree walk
\* deepest directory below the root that the tree walk is followed to
MaxPathLen == 4
\* largest config.treeDepth tried (cli.js:83, default 0)
MaxTreeDepth == 2

\* names a directory entry may have
DirNames == { ".git", NODE_MODULES, "lodash", "lib", "node_modules_old" }
\* names a file entry may have
FileNames == { "package.json", "index.js" }

\* resolved root directories the walk may start from: a project directory,
\* one below a directory whose name contains the text node_modules, and an
\* installed package's own directory
TreeRoots == { <<"home", "proj">>,
               <<"home", "node_modules_old", "proj">>,
               <<"home", NODE_MODULES, "lodash">> }

\* eiName.charAt(0) === '.'
StartsWithDot(name) == name \in { ".git" }

\* the text node_modules occurs in the name
ContainsNodeModulesText(name) == name \in { NODE_MODULES, "node_modules_old" }

\* eiFullParentDir.indexOf('node_modules') !== -1: a substring test on the
\* path string; the text holds no separator, so it occurs in the path iff
\* it occurs in one of the segments
IndexOfNodeModules(p) == \E i \in 1..Len(p) : ContainsNodeModulesText(p[i])

\* Path.basename on a path given by its segments
Basename(p) == IF Len(p) = 0 THEN "" ELSE p[Len(p)]

FilterDirsDotOnly(ei) == ~StartsWithDot(ei.name)

\* filterDirsNodeModPacks(ei), the directoryFilter of the walk
filterDirsNodeModPacks(ei) ==
    IF StartsWithDot(ei.name) THEN FALSE
    ELSE IF ei.name = NODE_MODULES THEN TRUE
    ELSE IF IndexOfNodeModules(ei.fullParentDir)
         THEN Basename(ei.fullParentDir) = NODE_MODULES
         ELSE TRUE

\* fileFilter: ['package.json']
FileFilter(name) == name = "package.json"

NoDepthOption == -1

DepthOptionAlwaysSet(treeDepth) == treeDepth

\* if (config.treeDepth) { readdirpOptions.depth = config.treeDepth; }
DepthOption(treeDepth) == IF treeDepth # 0 THEN treeDepth ELSE NoDepthOption

\* readdirp reads the directory at `depth` levels below the root (the root
\* is at depth 0) and recurses into its accepted subdirectories unless
\* depth === opts.depth; without the option the depth is not bounded
DepthReached(depth, opt) == opt # NoDepthOption /\ depth = opt

\* the correlation key of util/format's formatDevNameVersion
formatDevNameVersion(dev, name, version) == <<dev, name, version>>

NoKey == <<>>

\* the result selector of the manifest read: devNameVer, or null
DevNameVer(ei, pack) ==
    IF ~pack.isNull /\ pack.name # "" /\ pack.version # ""
    THEN formatDevNameVersion(ei.dev, pack.name, pack.version)
    ELSE NoKey

\* .filter(obj => obj.devNameVer)
HasKey(eiDN) == eiDN.devNameVer # NoKey

KeySelectorIgnoringDev(eiDN) == Tail(eiDN.devNameVer)

\* the key selector of .groupBy(eiDN => eiDN.devNameVer)
KeySelector(eiDN) == eiDN.devNameVer

\* the accumulator of group.reduce: acc.push(eiDN.entryInfo)
ReduceStep(acc, eiDN) == Append(acc, eiDN.entryInfo)

\* groupBy and the reduce of each group: the entry joins the group of its
\* key, and a key seen for the first time opens a group
GroupByPush(grps, eiDN) ==
    LET k == KeySelector(eiDN)
        hit == { i \in 1..Len(grps) : grps[i].key = k }
    IN  IF hit # {}
        THEN [ i \in 1..Len(grps) |->
                 IF i \in hit
                 THEN [grps[i] EXCEPT !.acc = ReduceStep(grps[i].acc, eiDN)]
                 ELSE grps[i] ]
        ELSE Append(grps, [key |-> k, acc |-> ReduceStep(<<>>, eiDN)])

\* .map(arrEI => [group.key, arrEI]) over the groups, which complete in the
\* order they were opened
Flush(grps) == [ i \in 1..Len(grps) |-> <<grps[i].key, grps[i].acc>> ]

\* --------------------------------------------- find-packages.js: the walks
SubjectWithoutReplay(subject) == <<>>

\* what a new subscriber of rtenv.cancelled$ receives at once: a
\* ReplaySubject replays every value it has emitted
Replayed(subject) == subject

\* the project function of the first mergeMap: readdirp creates the stream,
\* and the subscription to cancelled$ destroys it at once when the signal has
\* already fired
StartedWalk(subject) ==
    IF Len(Replayed(subject)) > 0 THEN "destroyed" ELSE "walking"

ActiveWalks(w) == { r \in Roots : w[r] \in {"walking", "destroyed"} }
QueuedWalks(w) == { r \in Roots : w[r] = "queued" }
MinOf(S) == CHOOSE x \in S : \A y \in S : x <= y

UnlimitedSlot(active, limit) == TRUE

\* mergeMap(project, resultSelector?, concurrent): a slot is free
FreeSlot(active, limit) == active < limit

RECURSIVE FillWalks(_, _)
\* mergeMap over the root directories: while a slot is free the next
\* buffered root (in command-line order) is projected and subscribed
FillWalks(w, subject) ==
    IF QueuedWalks(w) # {} /\ FreeSlot(Cardinality(ActiveWalks(w)), config.concurrentOps)
    THEN FillWalks([w EXCEPT ![MinOf(QueuedWalks(w))] = StartedWalk(subject)], subject)
    ELSE w

\* mergeMap over the candidates: the read starts when a slot is free, else
\* the candidate is buffered
AdmitRead(rd, rb, ei) ==
    IF FreeSlot(Cardinality(rd), config.concurrentOps)
    THEN [rd |-> rd \cup {ei}, rb |-> rb]
    ELSE [rd |-> rd, rb |-> Append(rb, ei)]

SourceDoneIgnoringReads(w, rd, rb) == \A r \in Roots : w[r] = "done"

\* both mergeMaps have completed: every root's inner observable completed,
\* no read is in flight and none is buffered
SourceDone(w, rd, rb) ==
    /\ \A r \in Roots : w[r] = "done"
    /\ rd = {}
    /\ rb = <<>>

\* the end of a handler that changed the scan: free walk slots are refilled,
\* and when the keyed-entry stream thereby completes, groupBy completes every
\* group and each reduce emits its array
ScanStep(w, subject, rd, rb, grps, arr, cnt) ==
    LET w2 == FillWalks(w, subject) IN
    /\ walk' = w2
    /\ reading' = rd
    /\ readBuffer' = rb
    /\ groups' = grps
    /\ arrived' = arr
    /\ packageCount' = cnt
    /\ IF SourceDone(w2, rd, rb)
       THEN /\ scanCompleted' = TRUE
            /\ emittedGroups' = Flush(grps)
       ELSE UNCHANGED << scanCompleted, emittedGroups >>

\* .takeWhile(() => !rtenv.cancelled)
TakeWhile == ~cancelled

\* a 'data' event of the walk of root r: readdirp yields a file that its
\* fileFilter lets through
WalkData(r) ==
    /\ pc = "running" /\ task = "scan"
    /\ UNCHANGED sideVars
    /\ walk[r] = "walking"
    /\ candCount < MaxEntries
    /\ \E dev \in Devs, dir \in ParentDirs, name \in FileNames :
         LET ei == [id |-> candCount + 1,
                    name |-> name,
                    fullParentDir |-> RootPath(r) \o dir,
                    dev |-> dev]
             adm == AdmitRead(reading, readBuffer, ei)
         IN  /\ FileFilter(name)
             /\ candCount' = IF TakeWhile /\ PostFilter(ei)
                             THEN candCount + 1 ELSE candCount
             /\ IF ~TakeWhile
                THEN ScanStep([walk EXCEPT ![r] = "done"], cancelledReplay,
                              reading, readBuffer, groups, arrived, packageCount)
                ELSE IF PostFilter(ei)
                THEN ScanStep(walk, cancelledReplay, adm.rd, adm.rb,
                              groups, arrived, packageCount)
                ELSE ScanStep(walk, cancelledReplay, reading, readBuffer,
                              groups, arrived, packageCount)
    /\ UNCHANGED << runVars, storeVars, cancelled, cancelledReplay, task,
                    linkNext, finalTasksRuns >>

\* the 'end' event of the walk of root r: the tree is exhausted, or (for a
\* stream destroyed before its listeners were attached) the end that
\* destroy pushed is delivered
WalkEnd(r) ==
    /\ pc = "running" /\ task = "scan"
    /\ UNCHANGED sideVars
    /\ walk[r] \in {"walking", "destroyed"}
    /\ ScanStep([walk EXCEPT ![r] = "done"], cancelledReplay,
                reading, readBuffer, groups, arrived, packageCount)
    /\ UNCHANGED << runVars, storeVars, cancelled, cancelledReplay, task,
                    candCount, linkNext, finalTasksRuns >>

PackageCountBeforeFilter(cnt, eiDN) == cnt + 1

\* .filter(obj => obj.devNameVer).do(obj => { rtenv.packageCount += 1; }):
\* the counter after the candidate has passed lines 68-69
PackageCountAfter(cnt, eiDN) == IF HasKey(eiDN) THEN cnt + 1 ELSE cnt

\* fs.readJsonAsync of candidate ei settles with pack: the result selector
\* keys the entry, the inner observable completes and the next buffered
\* candidate's read starts; a keyed entry is counted and grouped
ReadComplete(ei) ==
    /\ pc = "running" /\ task = "scan"
    /\ UNCHANGED sideVars
    /\ ei \in reading
    /\ \E pack \in Packs :
         LET eiDN == [entryInfo |-> ei, devNameVer |-> DevNameVer(ei, pack)]
             rd0 == reading \ {ei}
             rd == IF readBuffer # <<>> THEN rd0 \cup {Head(readBuffer)} ELSE rd0
             rb == IF readBuffer # <<>> THEN Tail(readBuffer) ELSE readBuffer
         IN  IF HasKey(eiDN)
             THEN ScanStep(walk, cancelledReplay, rd, rb,
                           GroupByPush(groups, eiDN),
                           Append(arrived, [entryInfo |-> ei, name |-> pack.name,
                                            version |-> pack.version]),
                           PackageCountAfter(packageCount, eiDN))
             ELSE ScanStep(walk, cancelledReplay, rd, rb,
                           groups, arrived,
                           PackageCountAfter(packageCount, eiDN))
    /\ UNCHANGED << runVars, storeVars, cancelled, cancelledReplay, task,
                    candCount, linkNext, finalTasksRuns >>

\* ------------------------------------------------------------ cli.js: the run
\* the tree walk while no walk is looked into
IdleTree == [ root |-> <<"home", "proj">>, treeDepth |-> 0, cwd |-> <<>>,
              tried |-> <<>>, accepted |-> FALSE, entered |-> FALSE,
              yielded |-> <<>> ]

InitRun ==
    /\ pc = "boot"
    /\ argv \in [prune : BOOLEAN, dryrun : BOOLEAN, dirs : {0, NumRoots}]
    /\ config \in [concurrentOps : 1..MaxConcurrentOps]
    /\ refsFile \in { [exists |-> FALSE, refs |-> {}],
                       [exists |-> TRUE, refs |-> {RefOk}],
                       [exists |-> TRUE, refs |-> StoredRefs] }
    /\ fsMutations = 0
    /\ handlers = {}
    /\ cancelled = FALSE
    /\ cancelledReplay = <<>>
    /\ packageCount = 0
    /\ savedByteCount = 0
    /\ existingShares = [id |-> 0, refs |-> {}]
    /\ origExistingShares = [id |-> 0, refs |-> {}]
    /\ nextObj = 1
    /\ task = "none"
    /\ walk = [r \in Roots |-> "none"]
    /\ candCount = 0
    /\ readBuffer = <<>>
    /\ reading = {}
    /\ groups = <<>>
    /\ arrived = <<>>
    /\ scanCompleted = FALSE
    /\ emittedGroups = <<>>
    /\ linkNext = 1
    /\ finalTasksRuns = 0
    /\ storeWrites = 0

\* the two-run view while it is not looked into
IdleRerun == [ run |-> 0 ]

Init == InitRun /\ tree = IdleTree /\ rerun = IdleRerun

\* rtenv.existingShares !== origExistingShares: another object
SameObject(a, b) == a.id = b.id

\* finalTasks (R.once), called with the store as it is at the end of the
\* completing handler. The 'EXIT' listener of line 189 names no event that
\* node emits, so the subscriber's complete callback is its only caller.
FinalTasks(shares) ==
    IF finalTasksRuns > 0
    THEN UNCHANGED << finalTasksRuns, refsFile, storeWrites, fsMutations >>
    ELSE /\ finalTasksRuns' = finalTasksRuns + 1
         /\ IF argv.dryrun \/ SameObject(shares, origExistingShares)
            THEN UNCHANGED << refsFile, storeWrites, fsMutations >>
            ELSE /\ refsFile' = [exists |-> TRUE, refs |-> shares.refs]
                 /\ storeWrites' = storeWrites + 1
                 /\ fsMutations' = fsMutations + 1

\* the subscription to findPackagesGrouped: Observable.from(rootDirs) hands
\* every root to the first mergeMap at once
SubscribeScan ==
    /\ task' = "scan"
    /\ walk' = FillWalks([r \in Roots |-> "queued"], cancelledReplay)

MergeTasks ==
    IF argv.prune
    THEN /\ task' = "prune"
         /\ walk' = IF argv.dirs > 0
                    THEN FillWalks([r \in Roots |-> "queued"], cancelledReplay)
                    ELSE walk
    ELSE SubscribeScan

\* Observable.concat(...arrTaskObs).subscribe: the first task is subscribed,
\* the prune task when the prune flag is set
SubscribeTasks ==
    IF argv.prune
    THEN task' = "prune" /\ UNCHANGED walk
    ELSE SubscribeScan

\* cli.js from line 114 to its end: the help exit, ensureFileSync, the load
\* of the store, the signal listeners and the subscription to the tasks
Startup ==
    /\ pc = "boot"
    /\ UNCHANGED sideVars
    /\ IF ~argv.prune /\ argv.dirs = 0
       THEN /\ pc' = "exited"
            /\ UNCHANGED << refsFile, fsMutations, existingShares,
                            origExistingShares, handlers, task, walk >>
       ELSE /\ pc' = "running"
            /\ refsFile' = [refsFile EXCEPT !.exists = TRUE]
            /\ fsMutations' = IF refsFile.exists THEN fsMutations ELSE fsMutations + 1
            /\ existingShares' = [id |-> 0, refs |-> refsFile.refs]
            /\ origExistingShares' = [id |-> 0, refs |-> refsFile.refs]
            /\ handlers' = Signals
            /\ SubscribeTasks
    /\ UNCHANGED << argv, config, cancelled, cancelledReplay, packageCount,
                    savedByteCount, nextObj, candCount, readBuffer, reading,
                    groups, arrived, scanCompleted, emittedGroups, linkNext,
                    finalTasksRuns, storeWrites >>

\* a signal is delivered. A listener installed with process.once is removed
\* as it is called, and a signal without a listener has its default
\* disposition: the process is terminated. cancel is wrapped in R.once.
Signal(sig) ==
    /\ pc = "running"
    /\ UNCHANGED sideVars
    /\ IF sig \notin handlers
       THEN /\ pc' = "killed"
            /\ UNCHANGED << handlers, cancelled, cancelledReplay, scanVars >>
       ELSE /\ handlers' = handlers \ {sig}
            /\ pc' = pc
            /\ IF cancelled
               THEN UNCHANGED << cancelled, cancelledReplay, scanVars >>
               ELSE /\ cancelled' = TRUE
                    /\ cancelledReplay' = Append(cancelledReplay, TRUE)
                    /\ candCount' = candCount
                    /\ IF task = "scan" /\ ~scanCompleted
                       THEN ScanStep([r \in Roots |->
                                        IF walk[r] = "walking" THEN "done" ELSE walk[r]],
                                     Append(cancelledReplay, TRUE),
                                     reading, readBuffer, groups, arrived,
                                     packageCount)
                       ELSE UNCHANGED << walk, reading, readBuffer, groups,
                                         arrived, packageCount, scanCompleted,
                                         emittedGroups >>
    /\ UNCHANGED << argv, config, storeVars, task, linkNext, finalTasksRuns >>

LiveMatchIgnoringMTime(ref) ==
    LET st == LiveStat(ref[1]) IN st # NoStat /\ st[1] = ref[2]

\* the pruner's test of one stored reference against the live filesystem:
\* the path exists and its manifest has the stored inode and modification
\* time
LiveMatch(ref) ==
    LET st == LiveStat(ref[1]) IN st # NoStat /\ st = <<ref[2], ref[3]>>

\* the prune pass emits the validated store, and the task installs it:
\* .do(newShares => { rtenv.existingShares = newShares; })
PruneEmit ==
    /\ pc = "running" /\ task = "prune"
    /\ UNCHANGED sideVars
    /\ existingShares' = [id |-> nextObj,
                          refs |-> { x \in existingShares.refs : LiveMatch(x) }]
    /\ nextObj' = nextObj + 1
    /\ task' = "pruned"
    /\ UNCHANGED << runVars, scanVars, cancelled, cancelledReplay,
                    origExistingShares, refsFile, fsMutations, savedByteCount,
                    storeWrites, linkNext, finalTasksRuns >>

\* Observable.concat: the next task is subscribed when the one before it
\* completes
ConcatNext ==
    IF argv.dirs > 0
    THEN /\ SubscribeScan
         /\ pc' = pc
         /\ UNCHANGED << finalTasksRuns, refsFile, storeWrites, fsMutations >>
    ELSE /\ task' = "complete"
         /\ pc' = "exited"
         /\ FinalTasks(existingShares)
         /\ UNCHANGED walk

\* the prune task completes
PruneComplete ==
    /\ pc = "running" /\ task = "pruned"
    /\ UNCHANGED sideVars
    /\ ConcatNext
    /\ UNCHANGED << argv, config, handlers, cancelled, cancelledReplay,
                    existingShares, origExistingShares, nextObj, savedByteCount,
                    candCount, readBuffer, reading, groups, arrived,
                    packageCount, scanCompleted, emittedGroups, linkNext >>

ErrorCallbackRunningFinalTasks == FinalTasks(existingShares)

\* the subscriber's error callback: error: err => console.error(err)
ErrorCallback == UNCHANGED << finalTasksRuns, refsFile, storeWrites, fsMutations >>

\* the prune task fails: concat passes the error on and subscribes to nothing
\* more; the subscriber's error callback logs it
PruneError ==
    /\ pc = "running" /\ task = "prune"
    /\ UNCHANGED sideVars
    /\ task' = "error"
    /\ pc' = "exited"
    /\ ErrorCallback
    /\ UNCHANGED << argv, config, handlers, scanVars, cancelled,
                    cancelledReplay, existingShares, origExistingShares,
                    nextObj, savedByteCount, linkNext >>

\* fs.readJsonAsync of candidate ei rejects: throws: false covers the parse
\* of the text only, and a file that cannot be read (removed since the walk
\* saw it, no permission) rejects the promise. The inner observable errors,
\* mergeMap passes the error on and unsubscribes: its other reads and its
\* buffer are dropped, the walks lose their listeners (their streams are
\* not destroyed), no group is completed, and the task stream ends with
\* the error
ReadError(ei) ==
    /\ pc = "running" /\ task = "scan"
    /\ UNCHANGED sideVars
    /\ ei \in reading
    /\ reading' = {}
    /\ readBuffer' = <<>>
    /\ task' = "error"
    /\ pc' = "exited"
    /\ ErrorCallback
    /\ UNCHANGED << argv, config, handlers, cancelled, cancelledReplay,
                    walk, candCount, groups, arrived, packageCount,
                    scanCompleted, emittedGroups, existingShares,
                    origExistingShares, nextObj, savedByteCount, linkNext >>

LinkOpCountingFailedGroup ==
    /\ pc = "running" /\ task = "scan"
    /\ UNCHANGED sideVars
    /\ linkNext <= Len(emittedGroups)
    /\ linkNext' = linkNext + 1
    /\ LET entries == emittedGroups[linkNext][2] IN
       \E ok \in BOOLEAN :
         IF Len(entries) < 2
         THEN UNCHANGED << existingShares, nextObj, savedByteCount, fsMutations >>
         ELSE IF argv.dryrun \/ ~ok
         THEN /\ savedByteCount' = savedByteCount + (Len(entries) - 1)
              /\ UNCHANGED << existingShares, nextObj, fsMutations >>
         ELSE /\ savedByteCount' = savedByteCount + (Len(entries) - 1)
              /\ fsMutations' = fsMutations + 1
              /\ existingShares' =
                   [id |-> nextObj,
                    refs |-> existingShares.refs \cup {<<"link", linkNext>>}]
              /\ nextObj' = nextObj + 1
    /\ UNCHANGED << runVars, scanVars, cancelled, cancelledReplay,
                    origExistingShares, refsFile, storeWrites, task,
                    finalTasksRuns >>

\* the executor takes the next emitted group: a group of one is not
\* eligible; in dry-run mode the action is only described; otherwise the
\* link operation succeeds (the store gains the link's record) or fails
\* (the group is skipped)
LinkOp ==
    /\ pc = "running" /\ task = "scan"
    /\ UNCHANGED sideVars
    /\ linkNext <= Len(emittedGroups)
    /\ linkNext' = linkNext + 1
    /\ LET entries == emittedGroups[linkNext][2] IN
       \E ok \in BOOLEAN :
         IF Len(entries) < 2 \/ (~argv.dryrun /\ ~ok)
         THEN UNCHANGED << existingShares, nextObj, savedByteCount, fsMutations >>
         ELSE IF argv.dryrun
         THEN /\ savedByteCount' = savedByteCount + (Len(entries) - 1)
              /\ UNCHANGED << existingShares, nextObj, fsMutations >>
         ELSE /\ savedByteCount' = savedByteCount + (Len(entries) - 1)
              /\ fsMutations' = fsMutations + 1
              /\ existingShares' =
                   [id |-> nextObj,
                    refs |-> existingShares.refs \cup {<<"link", linkNext>>}]
              /\ nextObj' = nextObj + 1
    /\ UNCHANGED << runVars, scanVars, cancelled, cancelledReplay,
                    origExistingShares, refsFile, storeWrites, task,
                    finalTasksRuns >>

\* the scan-and-link task completes, and with it the concat: the
\* subscriber's complete callback calls finalTasks
ScanComplete ==
    /\ pc = "running" /\ task = "scan"
    /\ UNCHANGED sideVars
    /\ scanCompleted
    /\ linkNext > Len(emittedGroups)
    /\ task' = "complete"
    /\ pc' = "exited"
    /\ FinalTasks(existingShares)
    /\ UNCHANGED << argv, config, handlers, scanVars, cancelled, cancelledReplay,
                    existingShares, origExistingShares, nextObj, savedByteCount,
                    linkNext >>

Next ==
    \/ Startup
    \/ \E sig \in Signals : Signal(sig)
    \/ PruneEmit
    \/ PruneComplete
    \/ PruneError
    \/ \E r \in Roots : WalkData(r)
    \/ \E r \in Roots : WalkEnd(r)
    \/ \E ei \in reading : ReadComplete(ei)
    \/ \E ei \in reading : ReadError(ei)
    \/ LinkOp
    \/ ScanComplete

Spec == Init /\ [][Next]_vars

\* every handler but the delivery of a signal runs once its event is due
FairSpec ==
    /\ Spec
    /\ WF_vars(Startup)
    /\ WF_vars(PruneEmit)
    /\ WF_vars(PruneComplete)
    /\ WF_vars(\E r \in Roots : WalkEnd(r))
    /\ WF_vars(\E ei \in reading : ReadComplete(ei))
    /\ WF_vars(LinkOp)
    /\ WF_vars(ScanComplete)

\* --------------------------------------------- the walk of one root's tree
\* One readdirp stream followed through its directory tree: tree.cwd is the
\* directory being read, by its segments below tree.root. The run around it
\* stays as it was started.
TreeInit ==
    /\ InitRun
    /\ argv = [prune |-> FALSE, dryrun |-> FALSE, dirs |-> NumRoots]
    /\ config = [concurrentOps |-> 1]
    /\ ~refsFile.exists
    /\ tree \in [ root : TreeRoots, treeDepth : 0..MaxTreeDepth, cwd : {<<>>},
                  tried : {<<>>}, accepted : {FALSE}, entered : {FALSE},
                  yielded : {<<>>} ]
    /\ rerun = IdleRerun

\* readdirp finds the subdirectory `name` in the directory it reads: the
\* directoryFilter decides on it, and it is recursed into when accepted and
\* the depth option does not stop the recursion
TreeSubdir(name) ==
    /\ Len(tree.cwd) < MaxPathLen
    /\ LET ei == [name |-> name, fullParentDir |-> tree.root \o tree.cwd]
           ok == filterDirsNodeModPacks(ei)
           go == ok /\ ~DepthReached(Len(tree.cwd), DepthOption(tree.treeDepth))
       IN  tree' = [tree EXCEPT !.tried = <<ei>>,
                                !.accepted = ok,
                                !.entered = go,
                                !.cwd = IF go THEN Append(@, name) ELSE @,
                                !.yielded = <<>>]
    /\ UNCHANGED << pipeVars, rerun >>

\* readdirp finds the file `name` in the directory it reads: entryType
\* 'files' with the fileFilter yields it as a 'data' event, and line 55
\* decides whether it goes on to the manifest read
TreeFile(name) ==
    /\ LET ei == [name |-> name, fullParentDir |-> tree.root \o tree.cwd,
                  depth |-> Len(tree.cwd)]
       IN  tree' = [tree EXCEPT !.tried = <<>>,
                                !.accepted = FALSE,
                                !.entered = FALSE,
                                !.yielded = IF FileFilter(name)
                                            THEN <<ei>>
                                            ELSE <<>>]
    /\ UNCHANGED << pipeVars, rerun >>

\* the directory has been read through: the recursion returns to its parent
TreeReturn ==
    /\ Len(tree.cwd) > 0
    /\ tree' = [tree EXCEPT !.cwd = Dirname(@), !.tried = <<>>,
                             !.accepted = FALSE, !.entered = FALSE,
                             !.yielded = <<>>]
    /\ UNCHANGED << pipeVars, rerun >>

TreeNext ==
    \/ \E name \in DirNames : TreeSubdir(name)
    \/ \E name \in FileNames : TreeFile(name)
    \/ TreeReturn

TreeSpec == TreeInit /\ [][TreeNext]_vars

\* ------------------------------------------------ two runs in succession
\* pkglink <roots> run to completion twice on one tree, without signals and
\* without the prune flag. Each root r holds one installed package,
\* <root r>/node_modules/lodash, version 4.17.0, on device rerun.dev[r];
\* rerun.disk[r] tells whether that path is still a directory of its own or
\* has been replaced by a link to the canonical copy. The stages of a run
\* are taken one after the other, as they are when no signal arrives: the
\* walks and reads ("walk"), the flush and the executor ("link"),
\* finalTasks ("exited").
RerunInit ==
    /\ InitRun
    /\ argv = [prune |-> FALSE, dryrun |-> FALSE, dirs |-> NumRoots]
    /\ config = [concurrentOps |-> 1]
    /\ ~refsFile.exists
    /\ tree = IdleTree
    /\ rerun \in [ run : {1}, stage : {"walk"},
                   dev : [Roots -> Devs],
                   disk : { [r \in Roots |-> "dir"] },
                   linkFails : BOOLEAN,
                   seen : { {} }, groups : { <<>> }, emitted : { <<>> },
                   next : {1}, saved : {0}, mutations : {0},
                   shares : { [id |-> 0, refs |-> {}] },
                   orig : { [id |-> 0, refs |-> {}] },
                   nextObj : {1}, file : { {} }, writes : {0} ]

StatYields(kind) == TRUE

\* lstat: true: the walk stats an entry without following a link, so a
\* path that is a link to a directory is no directory to it and is not
\* read
LstatYields(kind) == kind = "dir"

\* the manifest of the package below root r, as the walk reports it
RerunEntry(r) ==
    [ id |-> r, name |-> "package.json",
      fullParentDir |-> RootPath(r) \o <<NODE_MODULES, "lodash">>,
      dev |-> rerun.dev[r] ]

\* the walk of root r, with the manifest read of what it yields: the
\* package's manifest is a candidate when its directory is read; it passes
\* line 55, is keyed and joins its group
RerunWalk(r) ==
    /\ rerun.run \in {1, 2} /\ rerun.stage = "walk"
    /\ r \notin rerun.seen
    /\ LET ei == RerunEntry(r)
           pack == [isNull |-> FALSE, name |-> "lodash", version |-> "4.17.0"]
           eiDN == [entryInfo |-> ei, devNameVer |-> DevNameVer(ei, pack)]
           found == /\ LstatYields(rerun.disk[r]) /\ FileFilter(ei.name)
                    /\ PostFilter(ei) /\ HasKey(eiDN)
       IN  rerun' = [rerun EXCEPT
                       !.seen = @ \cup {r},
                       !.groups = IF found THEN GroupByPush(@, eiDN) ELSE @]
    /\ UNCHANGED << pipeVars, tree >>

\* every walk has ended and every read has settled: the groups are flushed
RerunFlush ==
    /\ rerun.run \in {1, 2} /\ rerun.stage = "walk"
    /\ rerun.seen = Roots
    /\ rerun' = [rerun EXCEPT !.emitted = Flush(rerun.groups), !.stage = "link"]
    /\ UNCHANGED << pipeVars, tree >>

\* the executor takes the next group: of an eligible group the first entry
\* is the canonical one, and the package directory of every other entry is
\* replaced by a link to it, with one record per link; a group of one is
\* not eligible, and a link that fails leaves its group as it was
RerunLink ==
    /\ rerun.run \in {1, 2} /\ rerun.stage = "link"
    /\ rerun.next <= Len(rerun.emitted)
    /\ LET entries == rerun.emitted[rerun.next][2]
           others == { entries[j].id : j \in 2..Len(entries) }
       IN  IF Len(entries) < 2 \/ rerun.linkFails
           THEN rerun' = [rerun EXCEPT !.next = @ + 1]
           ELSE rerun' = [rerun EXCEPT
                            !.next = @ + 1,
                            !.disk = [r \in Roots |->
                                        IF r \in others THEN "link" ELSE @[r]],
                            !.saved = @ + (Len(entries) - 1),
                            !.mutations = @ + (Len(entries) - 1),
                            !.shares = [id |-> rerun.nextObj,
                                        refs |-> @.refs \cup
                                                 { <<"link", r>> : r \in others }],
                            !.nextObj = @ + 1]
    /\ UNCHANGED << pipeVars, tree >>

\* the executor has taken every group, the task stream completes:
\* finalTasks writes the store back when it is another object than the one
\* loaded
RerunFinalTasks ==
    /\ rerun.run \in {1, 2} /\ rerun.stage = "link"
    /\ rerun.next > Len(rerun.emitted)
    /\ IF SameObject(rerun.shares, rerun.orig)
       THEN rerun' = [rerun EXCEPT !.stage = "exited"]
       ELSE rerun' = [rerun EXCEPT !.stage = "exited",
                                   !.file = rerun.shares.refs,
                                   !.writes = @ + 1,
                                   !.mutations = @ + 1]
    /\ UNCHANGED << pipeVars, tree >>

\* the second run starts on the tree and the reference-store file the first
\* run left: the store is loaded anew and the counters start at zero
RerunStartup ==
    /\ rerun.run = 1 /\ rerun.stage = "exited"
    /\ rerun' = [rerun EXCEPT
                    !.run = 2, !.stage = "walk", !.seen = {},
                    !.groups = <<>>, !.emitted = <<>>, !.next = 1,
                    !.saved = 0, !.mutations = 0, !.writes = 0,
                    !.shares = [id |-> 0, refs |-> rerun.file],
                    !.orig = [id |-> 0, refs |-> rerun.file],
                    !.nextObj = 1]
    /\ UNCHANGED << pipeVars, tree >>

RerunNext ==
    \/ \E r \in Roots : RerunWalk(r)
    \/ RerunFlush
    \/ RerunLink
    \/ RerunFinalTasks
    \/ RerunStartup

RerunSpec == RerunInit /\ [][RerunNext]_vars

\* ------------------------------------------------------------------ claims
\* the correlation key (deviceId, name, version) of an arrived entry
TrueKey(h) == <<h.entryInfo.dev, h.name, h.version>>

\* the reference group-by: the arrived entries of key k, in arrival order
EntriesOf(k) ==
    LET sel == SelectSeq(arrived, LAMBDA h : TrueKey(h) = k)
    IN  [ j \in 1..Len(sel) |-> sel[j].entryInfo ]

\* C1: when a scan ends without cancellation, the emitted pairs are the
\* reference group-by of the arrived entries on (deviceId, name, version):
\* one pair per key observed, holding exactly that key's entries in arrival
\* order.
C1_GroupsAreReferenceGroupBy ==
    (scanCompleted /\ ~cancelled) =>
        /\ \A i \in 1..Len(emittedGroups) :
             /\ emittedGroups[i][2] # <<>>
             /\ emittedGroups[i][2] = EntriesOf(emittedGroups[i][1])
        /\ \A j \in 1..Len(arrived) :
             \E i \in 1..Len(emittedGroups) : emittedGroups[i][1] = TrueKey(arrived[j])
        /\ \A i1, i2 \in 1..Len(emittedGroups) :
             emittedGroups[i1][1] = emittedGroups[i2][1] => i1 = i2

C1_Witness ==
    /\ scanCompleted /\ ~cancelled
    /\ Len(arrived) = MaxEntries
    /\ \E i \in 1..Len(emittedGroups) : Len(emittedGroups[i][2]) >= 2

\* C2: a pair is emitted only when no root walk and no manifest read is
\* pending, and the emitted pairs then hold every entry that arrived.
C2_EmitsOnlyAfterCompletion ==
    emittedGroups # <<>> =>
        /\ \A r \in Roots : walk[r] = "done"
        /\ reading = {} /\ readBuffer = <<>>
        /\ scanCompleted
        /\ \A j \in 1..Len(arrived) :
             \E i \in 1..Len(emittedGroups) :
               \E n \in 1..Len(emittedGroups[i][2]) :
                 emittedGroups[i][2][n] = arrived[j].entryInfo

C2_Witness ==
    /\ Len(emittedGroups) >= 2
    /\ ~cancelled

\* C3 (as claimed): when the signal has fired by the end of a step taken
\* while the scan was still in progress, that step emits no pair.
C3_NoFlushAfterCancel ==
    [][ (~scanCompleted /\ cancelled') => emittedGroups' = <<>> ]_vars

\* C4 (as claimed): after the signal has fired no entry list grows and
\* packageCount does not increase.
C4_NoEntryAcceptedAfterCancel ==
    [][ cancelled => (groups' = groups /\ packageCount' = packageCount) ]_vars

\* C5: once the signal has fired no root is being walked (so no walk opens
\* a directory): the running walks are stopped, and a root that was queued
\* is stopped as it is started.
C5_NoWalkAfterCancel ==
    cancelled => \A r \in Roots : walk[r] # "walking"

C5_Witness ==
    /\ cancelled
    /\ \E r \in Roots : walk[r] = "destroyed"
    /\ \E r \in Roots : walk[r] = "done"

\* C6 (as claimed): a run in which a signal fired does not end without
\* finalTasks having run exactly once, however many signals follow.
C6_CancelledRunPersists ==
    (cancelled /\ task # "error") => (pc = "running" \/ finalTasksRuns = 1)

\* C6 (what holds): under fair scheduling a run in which a signal fired ends
\* with finalTasks run once, unless a signal without a listener terminates it
\* or a task fails; finalTasks never runs twice.
C6_CompletesUnlessKilled ==
    /\ [](cancelled => <>(pc = "killed" \/ task = "error" \/ finalTasksRuns = 1))
    /\ [](finalTasksRuns <= 1)

\* C7: at most concurrentOps walks and at most concurrentOps manifest reads
\* are in progress, and a root or a candidate waits only while its stage is
\* full.
C7_ConcurrencyBounded ==
    /\ Cardinality(ActiveWalks(walk)) <= config.concurrentOps
    /\ Cardinality(reading) <= config.concurrentOps
    /\ QueuedWalks(walk) # {} => Cardinality(ActiveWalks(walk)) = config.concurrentOps
    /\ readBuffer # <<>> => Cardinality(reading) = config.concurrentOps

C7_Witness ==
    /\ QueuedWalks(walk) # {}
    /\ readBuffer # <<>>
    /\ ~cancelled

\* C8 (as claimed): the reference-store file is written back only with a
\* content that differs from the content loaded at start.
C8_WrittenOnlyIfContentDiffers ==
    storeWrites > 0 => refsFile.refs # origExistingShares.refs

\* C9 (as claimed): in dry-run mode nothing is created, replaced or written,
\* and the store mapping stays the one that was loaded.
C9_DryRunMutatesNothing ==
    argv.dryrun =>
        /\ fsMutations = 0
        /\ pc # "boot" => existingShares.refs = origExistingShares.refs

\* C10: while the prune pass is running no root has been handed to the
\* scanner and the executor has taken no group; when both passes are
\* requested a root is walked only once the scan-and-link task is subscribed
\* (it may since have completed or failed), on the store the prune pass
\* installed, which holds no stale record.
C10_PassesSequential ==
    /\ task \in {"prune", "pruned"} =>
         /\ \A r \in Roots : walk[r] = "none"
         /\ candCount = 0 /\ linkNext = 1
    /\ (argv.prune /\ \E r \in Roots : walk[r] # "none") =>
         /\ task \in {"scan", "complete", "error"}
         /\ RefStale \notin existingShares.refs

C10_Witness ==
    /\ argv.prune
    /\ task = "scan"
    /\ candCount > 0
    /\ RefStale \in origExistingShares.refs

\* C11: the walk never enters a directory whose name starts with '.', and
\* below a node_modules directory it has entered it goes one level further
\* (node_modules/X) and no deeper unless the deeper directory is itself
\* named node_modules (node_modules/X/Y only for Y = node_modules)
C11_NoDotNoDeeperThanPackage ==
    /\ \A i \in 1..Len(tree.cwd) : ~StartsWithDot(tree.cwd[i])
    /\ \A i \in 3..Len(tree.cwd) :
         (\E j \in 1..(i - 2) : tree.cwd[j] = NODE_MODULES) =>
            (tree.cwd[i] = NODE_MODULES \/ tree.cwd[i - 1] = NODE_MODULES)

\* the walk stands in node_modules/lodash and has just been refused lib
C11_Witness ==
    /\ tree.cwd = <<NODE_MODULES, "lodash">>
    /\ tree.tried # <<>> /\ tree.tried[1].name = "lib"
    /\ ~tree.accepted /\ ~tree.entered

\* the path has a segment named exactly node_modules
HasNodeModulesSegment(p) == \E i \in 1..Len(p) : p[i] = NODE_MODULES

\* the four rules in order, for the directory ei.name found in the directory
\* ei.fullParentDir that the walk is reading; the third rule is read as the
\* walk applies it, to the directory being read: when its path has a
\* node_modules segment, its subdirectories are entered only if it is named
\* node_modules itself
FourRuleDecision(ei) ==
    IF StartsWithDot(ei.name) THEN FALSE
    ELSE IF ei.name = NODE_MODULES THEN TRUE
    ELSE IF HasNodeModulesSegment(ei.fullParentDir)
         THEN Basename(ei.fullParentDir) = NODE_MODULES
         ELSE TRUE

\* C12: for every directory the filter's decision is that of the four rules
\* evaluated in order; in particular a directory none of whose ancestor
\* segments is named exactly node_modules is accepted unless its name
\* starts with '.', even when an ancestor's name contains the text
\* node_modules
C12_DecisionIsFourRule ==
    tree.tried # <<>> =>
        /\ tree.accepted <=> FourRuleDecision(tree.tried[1])
        /\ (/\ ~HasNodeModulesSegment(tree.tried[1].fullParentDir)
            /\ ~StartsWithDot(tree.tried[1].name)) => tree.accepted

\* the entries held anywhere from the manifest read to the emitted groups
PipelineEntries ==
    reading
      \cup { readBuffer[i] : i \in 1..Len(readBuffer) }
      \cup { arrived[i].entryInfo : i \in 1..Len(arrived) }
      \cup UNION { { groups[i].acc[j] : j \in 1..Len(groups[i].acc) } :
                   i \in 1..Len(groups) }
      \cup UNION { { emittedGroups[i][2][j] : j \in 1..Len(emittedGroups[i][2]) } :
                   i \in 1..Len(emittedGroups) }

\* C13: every candidate that reaches the manifest read, and so every entry
\* of every group, is a file named package.json whose parent directory's
\* parent is named node_modules (.../node_modules/X/package.json)
C13_OnlyInstalledPackageManifests ==
    \A e \in PipelineEntries :
        /\ e.name = "package.json"
        /\ Len(e.fullParentDir) >= 2
        /\ e.fullParentDir[Len(e.fullParentDir) - 1] = NODE_MODULES

\* a scan has emitted a group
C13_Witness ==
    /\ scanCompleted
    /\ emittedGroups # <<>>
    /\ \E e \in PipelineEntries :
         e.fullParentDir = RootPath(1) \o <<NODE_MODULES, "lodash">>

\* C14: with treeDepth = N > 0 the walk reads no directory, and so yields no
\* candidate, more than N levels below its root; with treeDepth = 0 no
\* depth bound is applied: every directory the filter accepts is entered
C14_TreeDepthBoundsWalk ==
    /\ tree.treeDepth > 0 =>
         /\ Len(tree.cwd) <= tree.treeDepth
         /\ tree.yielded # <<>> => tree.yielded[1].depth <= tree.treeDepth
    /\ (tree.treeDepth = 0 /\ tree.tried # <<>> /\ tree.accepted) => tree.entered

\* at N levels below the root a directory the filter accepts is not entered
C14_Witness ==
    /\ tree.treeDepth = MaxTreeDepth
    /\ Len(tree.cwd) = tree.treeDepth
    /\ tree.tried # <<>> /\ tree.accepted /\ ~tree.entered

\* C15: a candidate whose manifest cannot be read or parsed, or lacks a name
\* or a version, is silently discarded: the step that settles its read
\* leaves the counter and the groups as they were and the task stream
\* without an error, while a candidate with a usable manifest is delivered
\* to the grouper
C15_BadManifestDiscarded ==
    [][ \A ei \in reading :
          ei \notin reading' =>
             /\ task' # "error"
             /\ \/ /\ packageCount' = packageCount + 1
                   /\ Len(arrived') = Len(arrived) + 1
                   /\ arrived'[Len(arrived')].entryInfo = ei
                   /\ arrived'[Len(arrived')].name # ""
                   /\ arrived'[Len(arrived')].version # ""
                \/ /\ packageCount' = packageCount
                   /\ arrived' = arrived
                   /\ groups' = groups ]_vars

\* C16: the store that the prune pass installs holds every loaded record
\* that still matches the live filesystem exactly, and no record whose path
\* is missing, was recreated with another inode, or was modified; the pass
\* adds no record
C16_PruneKeepsExactlyMatching ==
    task = "pruned" =>
        /\ RefOk \in origExistingShares.refs => RefOk \in existingShares.refs
        /\ RefStale \notin existingShares.refs
        /\ RefRecreated \notin existingShares.refs
        /\ RefTouched \notin existingShares.refs
        /\ existingShares.refs \subseteq origExistingShares.refs

\* a store with a record of each kind has been pruned
C16_Witness ==
    /\ task = "pruned"
    /\ origExistingShares.refs = StoredRefs
    /\ existingShares.refs = {RefOk}

RECURSIVE SumOfSizes(_)
\* the number of entries in a sequence of [key, entries] pairs
SumOfSizes(pairs) ==
    IF pairs = <<>> THEN 0 ELSE Len(Head(pairs)[2]) + SumOfSizes(Tail(pairs))

\* C19: rtenv.packageCount is the number of keyed entries delivered to the
\* grouper so far (a discarded candidate is not counted), and once the
\* groups are flushed their sizes add up to it
C19_CountIsGrouperInput ==
    /\ packageCount = Len(arrived)
    /\ scanCompleted => SumOfSizes(emittedGroups) = packageCount

\* a scan in which a candidate was discarded and another keyed has flushed
C19_Witness ==
    /\ scanCompleted
    /\ candCount = MaxEntries
    /\ packageCount >= 1
    /\ packageCount < candCount
    /\ emittedGroups # <<>>

\* C20: when the task stream ends with an error, the error is only logged:
\* the step that delivers it leaves finalTasks uncalled and the
\* reference-store file with the content loaded at start (also when a
\* completed prune pass has changed the store in memory), it subscribes to
\* no further task, and the run is over
C20_ErrorOnlyLogged ==
    [][ task' = "error" =>
          /\ finalTasksRuns' = 0
          /\ storeWrites' = 0
          /\ refsFile'.refs = origExistingShares'.refs
          /\ walk' = walk
          /\ linkNext' = linkNext
          /\ pc' = "exited" ]_vars

\* a scan failed after a completed prune pass had dropped a record
C20_Witness ==
    /\ task = "error"
    /\ argv.prune
    /\ RefStale \in origExistingShares.refs
    /\ RefStale \notin existingShares.refs
    /\ RefStale \in refsFile.refs

====
